---- MODULE Spec2Model ----
(***************************************************************************)
(* Model of the Binance Vision listing crawlers and archive downloader.    *)
(*                                                                         *)
(*   download_xml_multiprocess.py : level-synchronized crawler (main,      *)
(*       process_level_with_multiprocessing, download_xml_worker)          *)
(*   utils.py / download_xml.py   : recursive crawler                      *)
(*       (process_s3_directory_recursive)                                  *)
(*   download_zip_data.py         : key filter, date filter and the        *)
(*       download batch (main, download_file_worker)                       *)
(*   extract_and_cleanup.py       : extraction batch and deletion of the   *)
(*       extracted archives (main, extract_zip_file)                       *)
(*                                                                         *)
(* Spec: either crawler against unknown listings.  FixtureSpec: the level  *)
(* crawler against a two-level tree.  OutsideSpec: the level crawler       *)
(* against listings with the prefixes "/" and "../".  DownloadSpec:        *)
(* download_zip_data.py.  ExtractSpec: extract_and_cleanup.py.             *)
(* FetchSpec: one request through a session with Retry(total=retries).     *)
(*                                                                         *)
(* Strings are sequences of one-character strings so that replace, rstrip  *)
(* and pathlib's joining are computed, not assumed.                        *)
(***************************************************************************)
EXTENDS Integers, Sequences, FiniteSets, TLC

\* ------------------------------------------------------------------ bounds
\* largest --max-depth tried (every value 0..MaxDepthLimit is tried)
MaxDepthLimit == 3
\* --workers: size of the per-level process pool and of the download
\* thread pool
Workers == 2

\* ------------------------------------------------------------- strings
\* str.replace(old, new) for one-character old/new
Replace(s, old, new) == [i \in 1..Len(s) |-> IF s[i] = old THEN new ELSE s[i]]

\* str.rstrip(c)
RECURSIVE RStrip(_, _)
RStrip(s, c) ==
    IF s # <<>> /\ s[Len(s)] = c THEN RStrip(SubSeq(s, 1, Len(s) - 1), c) ELSE s

\* str.split(sep): the components between separators, empty ones included
RECURSIVE Split(_, _, _)
Split(s, sep, cur) ==
    IF s = <<>> THEN <<cur>>
    ELSE IF s[1] = sep THEN <<cur>> \o Split(Tail(s), sep, <<>>)
    ELSE Split(Tail(s), sep, Append(cur, s[1]))

\* pathlib keeps the components that are neither empty nor "."
RECURSIVE KeepParts(_)
KeepParts(parts) ==
    IF parts = <<>> THEN <<>>
    ELSE IF parts[1] = <<>> \/ parts[1] = <<".">> THEN KeepParts(Tail(parts))
    ELSE <<parts[1]>> \o KeepParts(Tail(parts))

PathParts(s) == KeepParts(Split(s, "/", <<>>))

\* the root pathlib gives a POSIX path string: "" (relative), "/" or "//"
PathRoot(s) ==
    IF s = <<>> \/ s[1] # "/" THEN <<>>
    ELSE IF Len(s) >= 2 /\ s[2] = "/" /\ (Len(s) = 2 \/ s[3] # "/") THEN <<"/", "/">>
    ELSE <<"/">>

\* Path.__truediv__: base / s.  A path is the sequence of its components; an
\* absolute s discards base and starts with its root as first component.
PathJoin(base, s) ==
    IF PathRoot(s) = <<>> THEN base \o PathParts(s)
    ELSE <<PathRoot(s)>> \o PathParts(s)

\* --save-dir default Path("./data")
save_dir == << <<"d", "a", "t", "a">> >>

\* local_dir = save_dir / prefix
local_dir(prefix) == PathJoin(save_dir, prefix)

\* f"directory_{prefix.replace('/', '_').rstrip('_')}.xml"
xml_filename(prefix) ==
    <<"directory_">> \o RStrip(Replace(prefix, "/", "_"), "_") \o <<".xml">>

\* xml_file_path = local_dir / xml_filename
xml_file_path(prefix) == Append(local_dir(prefix), xml_filename(prefix))

\* ------------------------------------------------------ remote listings
\* --start-prefix
start_prefix == <<"a", "/">>

\* a child whose own name is empty: the common prefix of keys "a//..."
empty_name_prefix == <<"a", "/", "/">>

\* the prefixes a listing can report in this model
PrefixUniverse == {start_prefix, empty_name_prefix}

\* The CommonPrefixes of one listing, distinct and in key order as the
\* listing endpoint returns them.  Any prefix may be reported, the listed
\* prefix itself included.
Listings == {<<>>, <<start_prefix>>, <<empty_name_prefix>>,
             <<start_prefix, empty_name_prefix>>}

\* A listing document as received: well-formed XML with its CommonPrefixes
\* in document order, text that is not well-formed XML, or bytes that are
\* not valid UTF-8.
\* keys: the Key of each Contents element, in document order.
XmlListing(ps, ks) == [kind |-> "xml", prefixes |-> ps, keys |-> ks]
XmlDoc(ps) == XmlListing(ps, <<>>)
MalformedDoc == [kind |-> "malformed", prefixes |-> <<>>, keys |-> <<>>]
UndecodableDoc == [kind |-> "undecodable", prefixes |-> <<>>, keys |-> <<>>]
NoDoc == [kind |-> "unknown", prefixes |-> <<>>, keys |-> <<>>]
Docs == {XmlDoc(ps) : ps \in Listings} \cup {MalformedDoc, UndecodableDoc}

\* get_common_prefixes: ParseError is caught and gives []
\* variant: find instead of findall, only the first CommonPrefixes is taken
get_first_common_prefix(doc) ==
    IF doc.kind = "xml" /\ doc.prefixes # <<>> THEN <<doc.prefixes[1]>> ELSE <<>>
get_common_prefixes(doc) == IF doc.kind = "xml" THEN doc.prefixes ELSE <<>>

Range(s) == {s[i] : i \in 1..Len(s)}


\* ------------------------------------------------------------ object keys
\* str.endswith(suffix)
EndsWith(s, suffix) ==
    /\ Len(s) >= Len(suffix)
    /\ SubSeq(s, Len(s) - Len(suffix) + 1, Len(s)) = suffix

\* "needle in s" for strings
Contains(s, needle) ==
    \E i \in 0..(Len(s) - Len(needle)) : SubSeq(s, i + 1, i + Len(needle)) = needle

zip_suffix == <<".", "z", "i", "p">>
checksum_suffix == zip_suffix \o <<".", "C", "H", "E", "C", "K", "S", "U", "M">>

\* the test of lines 68-72: the Key has a text, it ends with ".zip" and it
\* does not end with ".zip.CHECKSUM"
\* variant: ".zip" is looked for anywhere in the key
IsZipKeyAnywhere(key) == key # <<>> /\ Contains(key, zip_suffix)
IsZipKey(key) ==
    key # <<>> /\ EndsWith(key, zip_suffix) /\ ~EndsWith(key, checksum_suffix)

\* the loop of lines 66-73 over the Contents elements
RECURSIVE ZipKeysOf(_)
ZipKeysOf(keys) ==
    IF keys = <<>> THEN <<>>
    ELSE IF IsZipKey(keys[1]) THEN <<keys[1]>> \o ZipKeysOf(Tail(keys))
    ELSE ZipKeysOf(Tail(keys))

\* extract_zip_files_from_xml on the content of one listing file: a file
\* that cannot be decoded or parsed gives [] (lines 75-80)
extract_zip_files_from_xml(doc) ==
    IF doc.kind = "xml" THEN ZipKeysOf(doc.keys) ELSE <<>>

\* utils.get_zip_files_from_xml, the test of lines 69-72: the Key has a text
\* and it ends with ".zip"
\* variant: ".zip" is looked for anywhere in the key
HasZipAnywhere(key) == key # <<>> /\ Contains(key, zip_suffix)
HasZipSuffix(key) == key # <<>> /\ EndsWith(key, zip_suffix)

\* the loop of utils.py lines 67-73 over the Contents elements
RECURSIVE ZipSuffixKeysOf(_)
ZipSuffixKeysOf(keys) ==
    IF keys = <<>> THEN <<>>
    ELSE IF HasZipSuffix(keys[1]) THEN <<keys[1]>> \o ZipSuffixKeysOf(Tail(keys))
    ELSE ZipSuffixKeysOf(Tail(keys))

\* utils.get_zip_files_from_xml on the content of a listing: ParseError is
\* caught and gives [] (lines 74-76)
get_zip_files_from_xml(doc) ==
    IF doc.kind = "xml" THEN ZipSuffixKeysOf(doc.keys) ELSE <<>>

\* str.zfill(width): zeros on the left, after a leading sign
ZFill(s, width) ==
    IF Len(s) >= width THEN s
    ELSE IF s # <<>> /\ s[1] \in {"+", "-"}
         THEN <<s[1]>> \o [i \in 1..(width - Len(s)) |-> "0"] \o Tail(s)
    ELSE [i \in 1..(width - Len(s)) |-> "0"] \o s

\* date_pattern = f"{year}-{month.zfill(2)}"
date_pattern(year_s, month_s) == year_s \o <<"-">> \o ZFill(month_s, 2)

\* the loop of lines 103-106
RECURSIVE KeysWithPattern(_, _)
KeysWithPattern(zip_files, pattern) ==
    IF zip_files = <<>> THEN <<>>
    ELSE IF Contains(zip_files[1], pattern)
         THEN <<zip_files[1]>> \o KeysWithPattern(Tail(zip_files), pattern)
    ELSE KeysWithPattern(Tail(zip_files), pattern)

\* filter_files_by_date(zip_files, year, month); "" stands for None as well
\* variant: the month is used as typed, without zfill
filter_files_by_date_unpadded(zip_files, year_s, month_s) ==
    IF year_s = <<>> \/ month_s = <<>> THEN zip_files
    ELSE KeysWithPattern(zip_files, year_s \o <<"-">> \o month_s)
filter_files_by_date(zip_files, year_s, month_s) ==
    IF year_s = <<>> \/ month_s = <<>> THEN zip_files
    ELSE KeysWithPattern(zip_files, date_pattern(year_s, month_s))

\* ------------------------------------------------------------ int(), :02d
Digits == <<"0", "1", "2", "3", "4", "5", "6", "7", "8", "9">>
IsDigit(c) == \E i \in 1..Len(Digits) : Digits[i] = c
DigitValue(c) == (CHOOSE i \in 1..Len(Digits) : Digits[i] = c) - 1

Unsigned(s) == IF s # <<>> /\ s[1] \in {"+", "-"} THEN Tail(s) ELSE s

\* int(s) does not raise ValueError: an optional sign and decimal digits
IsInt(s) == Unsigned(s) # <<>> /\ \A i \in 1..Len(Unsigned(s)) : IsDigit(Unsigned(s)[i])

RECURSIVE NatOf(_)
NatOf(s) ==
    IF s = <<>> THEN 0
    ELSE 10 * NatOf(SubSeq(s, 1, Len(s) - 1)) + DigitValue(s[Len(s)])

\* int(s)
IntOf(s) == IF s[1] = "-" THEN 0 - NatOf(Unsigned(s)) ELSE NatOf(Unsigned(s))

\* f"{month_int:02d}" for 0 <= month_int <= 99
Format02d(n) == <<Digits[(n \div 10) + 1], Digits[(n % 10) + 1]>>

\* ------------------------------------------------------------------ state
VARIABLES
    prog,                 \* which entry point runs: "multiprocess" | "recursive"
    max_depth,            \* --max-depth / max_depth argument
    remote,               \* listing document the remote serves for each prefix
    dirs,                 \* local directories created by mkdir
    files,                \* local files: path -> content
    \* download_xml_multiprocess.py
    pc,                   \* position of main
    level,                \* loop variable of "for level in range(max_depth)"
    current_prefixes,
    total_successful,
    total_failed,
    pools,                \* pools[l]: the tasks submitted to the pool of level l
    idx,                  \* position of the collecting loop in results
    next_level_prefixes,
    successful_downloads,
    failed_downloads,
    failed_tasks,
    \* utils.py
    stack,                \* call stack of process_s3_directory_recursive
    visited,              \* <<prefix, current_depth>> of every call that requested a listing
    errors_log,           \* lines of save_dir/errors.log
    escaped,              \* an exception left the outermost call
    \* download_zip_data.py
    args_year,            \* args.year as typed ("" when the option is absent)
    args_month,           \* args.month as typed ("" when the option is absent)
    tool_pc,              \* position of main of the tool that runs
    exit_status,          \* "none" while the program runs, then "0" or "1"
    xml_files,            \* the listing files still to be parsed
    all_zip_files,
    filtered_files,
    download_tasks,       \* the tasks submitted to the ThreadPoolExecutor
    failed_files,
    existing,             \* the local paths that exist when the batch is submitted
    \* one request through the session of setup_session
    retries,              \* Retry(total=retries)
    responses,            \* what the server does at each attempt
    attempts,             \* attempts made so far
    fetch_result,         \* "none" while the request runs, then "ok" or "raised"
    \* extract_and_cleanup.py (tool_pc, exit_status and failed_files are those
    \* of its main while it runs)
    extract               \* the other variables of its main, as one record

shared == <<prog, max_depth, remote, dirs, files>>
mainVars == <<pc, level, current_prefixes, total_successful, total_failed, pools,
              idx, next_level_prefixes, successful_downloads, failed_downloads,
              failed_tasks>>
recVars == <<stack, visited, errors_log, escaped>>
toolVars == <<args_year, args_month, tool_pc, exit_status, xml_files, all_zip_files,
              filtered_files, download_tasks, failed_files, existing,
              retries, responses, attempts, fetch_result>>
vars == <<shared, mainVars, recVars, toolVars, extract>>

\* the variables of main of extract_and_cleanup.py
no_delete == extract.no_delete                        \* args.no_delete
zip_files == extract.zip_files                        \* from find_all_zip_files
extract_tasks == extract.extract_tasks                \* submitted to the executor
successful_extracts == extract.successful_extracts
failed_extracts == extract.failed_extracts
successful_zip_files == extract.successful_zip_files  \* still to be deleted

\* ------------------------------------------------------------ file system
\* open(path, "wb").write(content): creates or overwrites
WriteFile(fs, path, content) ==
    [x \in DOMAIN fs \cup {path} |-> IF x = path THEN content ELSE fs[x]]

\* The remote content is fixed for the run but unknown: the document of a
\* prefix is chosen when it is first served and served again unchanged.
Serves(prefix) == IF remote[prefix] = NoDoc THEN Docs ELSE {remote[prefix]}

\* ------------------------------------------------- download_xml_multiprocess
\* a task submitted with pool.apply_async(download_xml_worker, (task,));
\* fetch: "none" | "failed" | "ok", the request made for it;
\* outcome: "none" | "success" | "failed", what the collecting loop counted
NewTask(prefix) ==
    [prefix |-> prefix, pc |-> "queued", fetch |-> "none",
     success |-> FALSE, child_prefixes |-> <<>>, outcome |-> "none"]

Running(t) == t.pc \in {"fetch", "write"}

\* for level in range(args.max_depth)
\* variant: range(max_depth + 1)
LevelInRangeOffByOne(lvl, depth) == lvl <= depth
LevelInRange(lvl, depth) == lvl < depth

\* list(set(current_prefixes)): the distinct prefixes, in an order the
\* program does not control
Orderings(S) == {s \in [1..Cardinality(S) -> S] : Range(s) = S}
\* variant: the frontier is submitted as it is
DedupMissing(prefixes) == {prefixes}
Dedup(prefixes) == Orderings(Range(prefixes))

SetTask(l, i, t) == [pools EXCEPT ![l][i] = t]

\* except Exception: return False, str(e), Path(""), []
\* variant: the exception is swallowed and the worker goes on to the write
FailedGoesOn(t) == [t EXCEPT !.pc = "write"]
Failed(t) == [t EXCEPT !.pc = "done", !.success = FALSE, !.child_prefixes = <<>>]

\* a free pool process takes the next task of the queue (lines 60-68):
\* local_dir.mkdir(exist_ok=True, parents=True)
WorkerStart ==
    /\ prog = "multiprocess"
    /\ \E l \in 1..Len(pools) : \E i \in 1..Len(pools[l]) :
         /\ pools[l][i].pc = "queued"
         /\ \A j \in 1..(i - 1) : pools[l][j].pc # "queued"
         /\ Cardinality({j \in 1..Len(pools[l]) : Running(pools[l][j])}) < Workers
         /\ \/ /\ dirs' = dirs \cup {local_dir(pools[l][i].prefix)}
               /\ pools' = SetTask(l, i, [pools[l][i] EXCEPT !.pc = "fetch"])
            \/ /\ pools' = SetTask(l, i, Failed(pools[l][i]))
               /\ UNCHANGED dirs
    /\ UNCHANGED <<prog, max_depth, remote, files, pc, level, current_prefixes,
                   total_successful, total_failed, idx, next_level_prefixes,
                   successful_downloads, failed_downloads, failed_tasks, recVars, toolVars, extract>>

\* session.get(full_url); response.raise_for_status() (lines 71-76)
WorkerFetch ==
    /\ prog = "multiprocess"
    /\ \E l \in 1..Len(pools) : \E i \in 1..Len(pools[l]) :
         /\ pools[l][i].pc = "fetch"
         /\ \/ \E doc \in Serves(pools[l][i].prefix) :
                 /\ remote' = [remote EXCEPT ![pools[l][i].prefix] = doc]
                 /\ pools' = SetTask(l, i, [pools[l][i] EXCEPT !.pc = "write",
                                                               !.fetch = "ok"])
            \/ /\ pools' = SetTask(l, i, [Failed(pools[l][i]) EXCEPT !.fetch = "failed"])
               /\ UNCHANGED remote
    /\ UNCHANGED <<prog, max_depth, dirs, files, pc, level, current_prefixes,
                   total_successful, total_failed, idx, next_level_prefixes,
                   successful_downloads, failed_downloads, failed_tasks, recVars, toolVars, extract>>

\* what the worker returns once the mirror file is written (lines 86-88):
\* xml_content.decode("utf-8") raises on bytes that are not UTF-8, otherwise
\* (True, "", xml_file_path, get_common_prefixes(...))
\* variant: the parsed child prefixes are not put into the returned tuple
WorkerResultWithoutChildren(t, doc) ==
    IF doc.kind = "undecodable" THEN Failed(t)
    ELSE [t EXCEPT !.pc = "done", !.success = TRUE]
WorkerResult(t, doc) ==
    IF doc.kind = "undecodable" THEN Failed(t)
    ELSE [t EXCEPT !.pc = "done", !.success = TRUE,
                   !.child_prefixes = get_common_prefixes(doc)]

\* open(xml_file_path, "wb"); f.write(xml_content); decode; parse; return
\* (lines 79-91)
WorkerWrite ==
    /\ prog = "multiprocess"
    /\ \E l \in 1..Len(pools) : \E i \in 1..Len(pools[l]) :
         /\ pools[l][i].pc = "write"
         /\ \/ /\ files' = WriteFile(files, xml_file_path(pools[l][i].prefix),
                                     remote[pools[l][i].prefix])
               /\ pools' = SetTask(l, i, WorkerResult(pools[l][i],
                                                      remote[pools[l][i].prefix]))
            \/ /\ pools' = SetTask(l, i, Failed(pools[l][i]))
               /\ UNCHANGED files
    /\ UNCHANGED <<prog, max_depth, remote, dirs, pc, level, current_prefixes,
                   total_successful, total_failed, idx, next_level_prefixes,
                   successful_downloads, failed_downloads, failed_tasks, recVars, toolVars, extract>>

\* ---------------------------------------------------------------- main
\* main, lines 270-286, and process_level_with_multiprocessing, lines 134-157:
\* the loop test, the deduplication and the submission of the level's tasks
Dispatch ==
    /\ prog = "multiprocess"
    /\ pc = "loop"
    /\ LevelInRange(level, max_depth)
    /\ current_prefixes # <<>>
    /\ \E ordered \in Dedup(current_prefixes) :
         /\ current_prefixes' = ordered
         /\ pools' = Append(pools, [i \in 1..Len(ordered) |-> NewTask(ordered[i])])
    /\ next_level_prefixes' = <<>>
    /\ successful_downloads' = 0
    /\ failed_downloads' = 0
    /\ failed_tasks' = <<>>
    /\ idx' = 1
    /\ pc' = "collect"
    /\ UNCHANGED <<shared, level, total_successful, total_failed, recVars, toolVars, extract>>

\* the loop ends: range(max_depth) is exhausted, or the frontier is empty
\* (break at line 273)
LoopExit ==
    /\ prog = "multiprocess"
    /\ pc = "loop"
    /\ ~LevelInRange(level, max_depth) \/ current_prefixes = <<>>
    /\ pc' = "done"
    /\ UNCHANGED <<shared, level, current_prefixes, total_successful, total_failed,
                   pools, idx, next_level_prefixes, successful_downloads,
                   failed_downloads, failed_tasks, recVars, toolVars, extract>>

\* if success: (line 166)
\* variant: the success flag is not looked at
IsSuccessAlways(t) == TRUE
IsSuccess(t) == t.success

\* next_level_prefixes.extend(child_prefixes) (line 168)
\* variant: assignment instead of extend
ExtendNextOverwrites(next, t) == t.child_prefixes
ExtendNext(next, t) == next \o t.child_prefixes

\* result_async.get(timeout=60) returned the worker's tuple (lines 162-177)
CollectResult ==
    /\ prog = "multiprocess"
    /\ pc = "collect"
    /\ idx <= Len(pools[level + 1])
    /\ pools[level + 1][idx].pc = "done"
    /\ IF IsSuccess(pools[level + 1][idx])
       THEN /\ successful_downloads' = successful_downloads + 1
            /\ next_level_prefixes' = ExtendNext(next_level_prefixes, pools[level + 1][idx])
            /\ pools' = SetTask(level + 1, idx,
                                [pools[level + 1][idx] EXCEPT !.outcome = "success"])
            /\ UNCHANGED <<failed_downloads, failed_tasks>>
       ELSE /\ failed_downloads' = failed_downloads + 1
            /\ failed_tasks' = Append(failed_tasks, pools[level + 1][idx].prefix)
            /\ pools' = SetTask(level + 1, idx,
                                [pools[level + 1][idx] EXCEPT !.outcome = "failed"])
            /\ UNCHANGED <<successful_downloads, next_level_prefixes>>
    /\ idx' = idx + 1
    /\ UNCHANGED <<shared, pc, level, current_prefixes, total_successful, total_failed,
                   recVars, toolVars, extract>>

\* result_async.get(timeout=60) raised TimeoutError: the result was not
\* ready after 60 seconds (lines 179-184)
CollectTimeout ==
    /\ prog = "multiprocess"
    /\ pc = "collect"
    /\ idx <= Len(pools[level + 1])
    /\ pools[level + 1][idx].pc # "done"
    /\ failed_downloads' = failed_downloads + 1
    /\ failed_tasks' = Append(failed_tasks, pools[level + 1][idx].prefix)
    /\ pools' = SetTask(level + 1, idx,
                        [pools[level + 1][idx] EXCEPT !.outcome = "failed"])
    /\ idx' = idx + 1
    /\ UNCHANGED <<shared, pc, level, current_prefixes, total_successful, total_failed,
                   successful_downloads, next_level_prefixes, recVars, toolVars, extract>>

\* Pool.__exit__ calls terminate(): the pool's processes are killed and the
\* tasks still queued are dropped
\* variant: the pool is left without terminate()
TerminateMissing(tasks) == tasks
Terminate(tasks) ==
    [i \in 1..Len(tasks) |->
        IF tasks[i].pc = "done" THEN tasks[i] ELSE [tasks[i] EXCEPT !.pc = "killed"]]

\* current_prefixes = next_prefixes (line 293)
\* variant: current_prefixes += next_prefixes
NextFrontierAccumulates(current, next) == current \o next
NextFrontier(current, next) == next

\* total_successful += successful; total_failed += failed (lines 288-290)
\* variant: assignment instead of +=
AddLevelOverwrites(total, count) == count
AddLevel(total, count) == total + count

\* leaving "with Pool(...)" (line 186), the return (line 197) and main,
\* lines 288-300: totals, the next frontier, break when it is empty
LevelEnd ==
    /\ prog = "multiprocess"
    /\ pc = "collect"
    /\ idx > Len(pools[level + 1])
    /\ pools' = [pools EXCEPT ![level + 1] = Terminate(pools[level + 1])]
    /\ total_successful' = AddLevel(total_successful, successful_downloads)
    /\ total_failed' = AddLevel(total_failed, failed_downloads)
    /\ current_prefixes' = NextFrontier(current_prefixes, next_level_prefixes)
    /\ IF next_level_prefixes = <<>>
       THEN pc' = "done" /\ UNCHANGED level
       ELSE pc' = "loop" /\ level' = level + 1
    /\ UNCHANGED <<shared, idx, next_level_prefixes, successful_downloads,
                   failed_downloads, failed_tasks, recVars, toolVars, extract>>

MainNext ==
    \/ Dispatch
    \/ LoopExit
    \/ CollectResult
    \/ CollectTimeout
    \/ LevelEnd
    \/ WorkerStart
    \/ WorkerFetch
    \/ WorkerWrite

\* ------------------------------------------- process_s3_directory_recursive
\* a call of process_s3_directory_recursive(s3_base_url, prefix, save_dir,
\* max_depth, current_depth)
Frame(prefix, depth) ==
    [prefix |-> prefix, current_depth |-> depth, pc |-> "enter",
     child_prefixes |-> <<>>, i |-> 1]

Top == stack[Len(stack)]
Pop(n) == SubSeq(stack, 1, Len(stack) - n)

\* if current_depth >= max_depth
\* variant: current_depth > max_depth
DepthReachedOffByOne(depth, limit) == depth > limit
DepthReached(depth, limit) == depth >= limit

\* save_error_url(error_msg, save_dir / "errors.log"): mode "w" when the file
\* does not exist yet, "a" afterwards; one line per call
save_error_url(log, prefix) == Append(log, prefix)

\* lines 105-107: the depth limit is reached, return
RecDepthLimit ==
    /\ prog = "recursive"
    /\ stack # <<>>
    /\ Top.pc = "enter"
    /\ DepthReached(Top.current_depth, max_depth)
    /\ stack' = Pop(1)
    /\ UNCHANGED <<shared, mainVars, toolVars, extract, visited, errors_log, escaped>>

\* line 113: local_dir.mkdir raises, outside the try: the exception leaves
\* this call and reaches the except of the caller's loop (line 139), which
\* logs the caller's prefix and returns; from the outermost call it reaches
\* download_xml.py
RecMkdirFails ==
    /\ prog = "recursive"
    /\ stack # <<>>
    /\ Top.pc = "enter"
    /\ ~DepthReached(Top.current_depth, max_depth)
    /\ IF Len(stack) = 1
       THEN /\ stack' = <<>>
            /\ escaped' = TRUE
            /\ UNCHANGED errors_log
       ELSE /\ stack' = Pop(2)
            /\ errors_log' = save_error_url(errors_log, stack[Len(stack) - 1].prefix)
            /\ UNCHANGED escaped
    /\ UNCHANGED <<shared, mainVars, toolVars, extract, visited>>

\* lines 113-122 and 139-142: the directory is made, the request fails, the
\* prefix is logged, return
RecFetchFails ==
    /\ prog = "recursive"
    /\ stack # <<>>
    /\ Top.pc = "enter"
    /\ ~DepthReached(Top.current_depth, max_depth)
    /\ dirs' = dirs \cup {local_dir(Top.prefix)}
    /\ visited' = visited \cup {<<Top.prefix, Top.current_depth>>}
    /\ errors_log' = save_error_url(errors_log, Top.prefix)
    /\ stack' = Pop(1)
    /\ UNCHANGED <<prog, max_depth, remote, files, mainVars, toolVars, extract, escaped>>

\* save_xml_file: the write, or False when it raises (the caller ignores it)
save_xml_file(fs, path, content) == {WriteFile(fs, path, content), fs}

\* lines 113-131: the directory is made, the listing is received, saved
\* (or not: save_xml_file swallows the error) and parsed
RecFetchOk ==
    /\ prog = "recursive"
    /\ stack # <<>>
    /\ Top.pc = "enter"
    /\ ~DepthReached(Top.current_depth, max_depth)
    /\ dirs' = dirs \cup {local_dir(Top.prefix)}
    /\ visited' = visited \cup {<<Top.prefix, Top.current_depth>>}
    /\ \E doc \in Serves(Top.prefix) :
         /\ remote' = [remote EXCEPT ![Top.prefix] = doc]
         /\ files' \in save_xml_file(files, xml_file_path(Top.prefix), doc)
         /\ stack' = [stack EXCEPT ![Len(stack)] =
                        [@ EXCEPT !.pc = "loop", !.i = 1,
                                  !.child_prefixes = get_common_prefixes(doc)]]
    /\ UNCHANGED <<prog, max_depth, mainVars, toolVars, extract, errors_log, escaped>>

\* lines 134-137: the call for the next child
RecCall ==
    /\ prog = "recursive"
    /\ stack # <<>>
    /\ Top.pc = "loop"
    /\ Top.i <= Len(Top.child_prefixes)
    /\ stack' = Append([stack EXCEPT ![Len(stack)] = [@ EXCEPT !.i = @ + 1]],
                       Frame(Top.child_prefixes[Top.i], Top.current_depth + 1))
    /\ UNCHANGED <<shared, mainVars, toolVars, extract, visited, errors_log, escaped>>

\* the loop over the children is finished, return
RecReturn ==
    /\ prog = "recursive"
    /\ stack # <<>>
    /\ Top.pc = "loop"
    /\ Top.i > Len(Top.child_prefixes)
    /\ stack' = Pop(1)
    /\ UNCHANGED <<shared, mainVars, toolVars, extract, visited, errors_log, escaped>>

RecNext ==
    \/ RecDepthLimit
    \/ RecMkdirFails
    \/ RecFetchFails
    \/ RecFetchOk
    \/ RecCall
    \/ RecReturn

\* ------------------------------------------------------------------ Init
\* extract_and_cleanup.py is not running
ExtractIdle ==
    extract = [no_delete |-> FALSE, zip_files |-> <<>>, extract_tasks |-> <<>>,
               successful_extracts |-> 0, failed_extracts |-> 0,
               successful_zip_files |-> <<>>]

\* download_zip_data.py is not running and no request is being watched
ToolIdle ==
    /\ args_year = <<>>
    /\ args_month = <<>>
    /\ tool_pc = "idle"
    /\ exit_status = "none"
    /\ xml_files = <<>>
    /\ all_zip_files = <<>>
    /\ filtered_files = <<>>
    /\ download_tasks = <<>>
    /\ failed_files = <<>>
    /\ existing = {}
    /\ retries = 0
    /\ responses = <<>>
    /\ attempts = 0
    /\ fetch_result = "none"
    /\ ExtractIdle

Init ==
    /\ prog \in {"multiprocess", "recursive"}
    /\ max_depth \in 0..MaxDepthLimit
    /\ remote = [p \in PrefixUniverse |-> NoDoc]
    /\ dirs = IF prog = "multiprocess" THEN {save_dir} ELSE {}
    /\ files = << >>
    /\ pc = "loop"
    /\ level = 0
    /\ current_prefixes = <<start_prefix>>
    /\ total_successful = 0
    /\ total_failed = 0
    /\ pools = <<>>
    /\ idx = 1
    /\ next_level_prefixes = <<>>
    /\ successful_downloads = 0
    /\ failed_downloads = 0
    /\ failed_tasks = <<>>
    /\ stack = IF prog = "recursive" THEN <<Frame(start_prefix, 0)>> ELSE <<>>
    /\ visited = {}
    /\ errors_log = <<>>
    /\ escaped = FALSE
    /\ ToolIdle

Next == MainNext \/ RecNext

Spec == Init /\ [][Next]_vars

\* The coordinator and the recursive call are sequential programs that keep
\* running; a pool process may stay blocked in its request for ever.
FairSpec == Spec /\ WF_vars(Next)

\* ------------------------------------------------------- download_zip_data
\* --download-dir default Path("./downloads")
download_dir == << <<"d", "o", "w", "n", "l", "o", "a", "d", "s">> >>

\* local_path = args.download_dir / file_key
local_path(key) == PathJoin(download_dir, key)

\* local_path.parent
Parent(path) == SubSeq(path, 1, Len(path) - 1)

\* os.unlink(path)
RemoveFile(fs, path) == [x \in DOMAIN fs \ {path} |-> fs[x]]

\* the object keys the listings of this model hold
key_april == <<"a", "/", "2", "0", "2", "4", "-", "0", "4">> \o zip_suffix
key_april_checksum == key_april \o <<".", "C", "H", "E", "C", "K", "S", "U", "M">>
key_may == <<"a", "/", "2", "0", "2", "4", "-", "0", "5">> \o zip_suffix
key_json == <<"a", "/", "x", ".", "j", "s", "o", "n">>

\* the Contents of a listing file of the mirror, in document order
KeyListings == {<<>>,
                <<key_april, key_april_checksum>>,
                <<key_may, key_json, key_april>>}

\* the two listing files the data directory can hold; the second one, when
\* it is there, lists key_april again (a second mirror of the same prefix)
first_xml == xml_file_path(start_prefix)
second_xml == xml_file_path(<<"b", "/">>)

\* what --year and --month can be typed as ("" when the option is absent)
YearArgs == {<<>>, <<"2", "0", "2", "4">>, <<"x">>}
MonthArgs == {<<>>, <<"4">>, <<"0", "4">>, <<"1", "3">>, <<"x">>}

\* lines 230-246: the run is refused (sys.exit(1)) when only one of the two
\* is given, when int() raises, or when the month is not in 1..12
\* variant: a lone year or month is taken as "no filter"
UsageErrorLenient(year_s, month_s) ==
    /\ year_s # <<>> /\ month_s # <<>>
    /\ \/ ~IsInt(year_s)
       \/ ~IsInt(month_s)
       \/ ~(1 <= IntOf(month_s) /\ IntOf(month_s) <= 12)
UsageError(year_s, month_s) ==
    /\ year_s # <<>> \/ month_s # <<>>
    /\ \/ ~(year_s # <<>> /\ month_s # <<>>)
       \/ ~IsInt(year_s)
       \/ ~IsInt(month_s)
       \/ ~(1 <= IntOf(month_s) /\ IntOf(month_s) <= 12)

\* year and month of main once the arguments are accepted (lines 227-243)
year == IF args_year # <<>> /\ args_month # <<>> THEN args_year ELSE <<>>
month ==
    IF args_year # <<>> /\ args_month # <<>> THEN Format02d(IntOf(args_month)) ELSE <<>>

ToolExit(status) ==
    /\ tool_pc' = "exit"
    /\ exit_status' = status

\* lines 226-246
ValidateArgs ==
    /\ tool_pc = "args"
    /\ IF UsageError(args_year, args_month)
       THEN ToolExit("1")
       ELSE tool_pc' = "find" /\ UNCHANGED exit_status
    /\ UNCHANGED <<shared, mainVars, recVars, args_year, args_month, xml_files,
                   all_zip_files, filtered_files, download_tasks, failed_files,
                   existing, retries, responses, attempts, fetch_result,
                   extract>>

\* data_dir.rglob("*.xml"): the listing files below the data directory
XmlFilesBelow(dir) ==
    {p \in DOMAIN files : Len(p) > Len(dir) /\ SubSeq(p, 1, Len(dir)) = dir
                          /\ EndsWith(p[Len(p)], <<".xml">>)}

\* lines 259-271: the data directory must exist and hold listing files, found
\* in the order the directory scan gives them
FindXmlFiles ==
    /\ tool_pc = "find"
    /\ IF save_dir \notin dirs \/ XmlFilesBelow(save_dir) = {}
       THEN /\ ToolExit("1")
            /\ UNCHANGED xml_files
       ELSE /\ xml_files' \in Orderings(XmlFilesBelow(save_dir))
            /\ tool_pc' = "parse"
            /\ UNCHANGED exit_status
    /\ UNCHANGED <<shared, mainVars, recVars, args_year, args_month,
                   all_zip_files, filtered_files, download_tasks, failed_files,
                   existing, retries, responses, attempts, fetch_result,
                   extract>>

\* lines 277-279: one turn of the loop over the listing files
ParseXmlFile ==
    /\ tool_pc = "parse"
    /\ xml_files # <<>>
    /\ all_zip_files' = all_zip_files \o extract_zip_files_from_xml(files[xml_files[1]])
    /\ xml_files' = Tail(xml_files)
    /\ UNCHANGED <<shared, mainVars, recVars, args_year, args_month, tool_pc,
                   exit_status, filtered_files, download_tasks, failed_files,
                   existing, retries, responses, attempts, fetch_result,
                   extract>>

\* lines 283-297: the date filter when year and month are given, and the
\* end of the run (sys.exit(0)) when nothing is left
FilterFiles ==
    /\ tool_pc = "parse"
    /\ xml_files = <<>>
    /\ filtered_files' = IF year # <<>> /\ month # <<>>
                         THEN filter_files_by_date(all_zip_files, year, month)
                         ELSE all_zip_files
    /\ IF filtered_files' = <<>>
       THEN ToolExit("0")
       ELSE tool_pc' = "confirm" /\ UNCHANGED exit_status
    /\ UNCHANGED <<shared, mainVars, recVars, args_year, args_month, xml_files,
                   all_zip_files, download_tasks, failed_files,
                   existing, retries, responses, attempts, fetch_result,
                   extract>>

\* a task submitted with executor.submit(download_file_worker, task);
\* requested: a request was sent for it; linked: the file it opened is still
\* the one at local_path; counted: as_completed handed it to the main thread
DownloadTask(key) ==
    [key |-> key, pc |-> "queued", skipped |-> FALSE, requested |-> FALSE,
     linked |-> FALSE, success |-> FALSE, counted |-> FALSE]

SetDownload(i, t) == [download_tasks EXCEPT ![i] = t]

\* lines 312-340: the answer to input(), download_dir.mkdir, the task list and
\* its submission; anything but "y"/"yes" ends the run (sys.exit(0)), and a
\* mkdir that raises ends it with a traceback
ConfirmAndSubmit ==
    /\ tool_pc = "confirm"
    /\ \/ /\ ToolExit("0")
          /\ UNCHANGED <<dirs, download_tasks, existing>>
       \/ /\ ToolExit("1")
          /\ UNCHANGED <<dirs, download_tasks, existing>>
       \/ /\ dirs' = dirs \cup {download_dir}
          /\ download_tasks' = [i \in 1..Len(filtered_files) |->
                                  DownloadTask(filtered_files[i])]
          /\ existing' = DOMAIN files
          /\ tool_pc' = "download"
          /\ UNCHANGED exit_status
    /\ UNCHANGED <<prog, max_depth, remote, files, mainVars, recVars, args_year,
                   args_month, xml_files, all_zip_files, filtered_files,
                   failed_files, retries, responses, attempts, fetch_result,
                   extract>>

Downloading(t) == t.pc \in {"get", "open", "write", "cleanup"}

\* a free thread takes the next task (lines 121-131): the existence check,
\* then local_path.parent.mkdir(parents=True, exist_ok=True)
\* variant: the existence check is left out
SkipNothing(fs, path) == FALSE
SkipExisting(fs, path) == path \in DOMAIN fs

DownloadStart ==
    /\ tool_pc = "download"
    /\ \E i \in 1..Len(download_tasks) :
         /\ download_tasks[i].pc = "queued"
         /\ \A j \in 1..(i - 1) : download_tasks[j].pc # "queued"
         /\ Cardinality({j \in 1..Len(download_tasks) :
                            Downloading(download_tasks[j])}) < Workers
         /\ IF SkipExisting(files, local_path(download_tasks[i].key))
            THEN /\ download_tasks' =
                       SetDownload(i, [download_tasks[i] EXCEPT
                                          !.pc = "done", !.skipped = TRUE, !.success = TRUE])
                 /\ UNCHANGED dirs
            ELSE \/ /\ dirs' = dirs \cup {Parent(local_path(download_tasks[i].key))}
                    /\ download_tasks' =
                          SetDownload(i, [download_tasks[i] EXCEPT !.pc = "get"])
                 \/ /\ download_tasks' =
                          SetDownload(i, [download_tasks[i] EXCEPT !.pc = "cleanup"])
                    /\ UNCHANGED dirs
    /\ UNCHANGED <<prog, max_depth, remote, files, mainVars, recVars, args_year,
                   args_month, tool_pc, exit_status, xml_files, all_zip_files,
                   filtered_files, failed_files, existing, retries, responses,
                   attempts, fetch_result,
                   extract>>

\* lines 133-137: session.get(url, stream=True), raise_for_status, the
\* content-length header
DownloadGet ==
    /\ tool_pc = "download"
    /\ \E i \in 1..Len(download_tasks) :
         /\ download_tasks[i].pc = "get"
         /\ \E to \in {"open", "cleanup"} :
              download_tasks' = SetDownload(i, [download_tasks[i] EXCEPT
                                                   !.pc = to, !.requested = TRUE])
    /\ UNCHANGED <<shared, mainVars, recVars, args_year, args_month, tool_pc,
                   exit_status, xml_files, all_zip_files, filtered_files,
                   failed_files, existing, retries, responses, attempts,
                   fetch_result,
                   extract>>

\* line 139: open(local_path, "wb") creates the file or truncates the one
\* that is there
DownloadOpen ==
    /\ tool_pc = "download"
    /\ \E i \in 1..Len(download_tasks) :
         /\ download_tasks[i].pc = "open"
         /\ \/ /\ files' = WriteFile(files, local_path(download_tasks[i].key), "partial")
               /\ download_tasks' = SetDownload(i, [download_tasks[i] EXCEPT
                                                       !.pc = "write", !.linked = TRUE])
            \/ /\ download_tasks' =
                     SetDownload(i, [download_tasks[i] EXCEPT !.pc = "cleanup"])
               /\ UNCHANGED files
    /\ UNCHANGED <<prog, max_depth, remote, dirs, mainVars, recVars, args_year,
                   args_month, tool_pc, exit_status, xml_files, all_zip_files,
                   filtered_files, failed_files, existing, retries, responses,
                   attempts, fetch_result,
                   extract>>

\* lines 140-147: the body is written and True is returned, or the stream or
\* the write raises; what is written to a file that was unlinked meanwhile
\* is not at local_path
DownloadWrite ==
    /\ tool_pc = "download"
    /\ \E i \in 1..Len(download_tasks) :
         /\ download_tasks[i].pc = "write"
         /\ \/ /\ files' = IF download_tasks[i].linked
                           THEN WriteFile(files, local_path(download_tasks[i].key),
                                          "complete")
                           ELSE files
               /\ download_tasks' = SetDownload(i, [download_tasks[i] EXCEPT
                                                       !.pc = "done", !.success = TRUE])
            \/ /\ download_tasks' =
                     SetDownload(i, [download_tasks[i] EXCEPT !.pc = "cleanup"])
               /\ UNCHANGED files
    /\ UNCHANGED <<prog, max_depth, remote, dirs, mainVars, recVars, args_year,
                   args_month, tool_pc, exit_status, xml_files, all_zip_files,
                   filtered_files, failed_files, existing, retries, responses,
                   attempts, fetch_result,
                   extract>>

\* unlink removes the name: a thread that has the file open goes on writing
\* to a file that is no longer at local_path
Unlinked(tasks, path) ==
    [j \in 1..Len(tasks) |->
        IF local_path(tasks[j].key) = path THEN [tasks[j] EXCEPT !.linked = FALSE]
        ELSE tasks[j]]

\* lines 149-156: if local_path.exists(): unlink (an error of unlink is
\* swallowed), return False
DownloadCleanup ==
    /\ tool_pc = "download"
    /\ \E i \in 1..Len(download_tasks) :
         /\ download_tasks[i].pc = "cleanup"
         /\ \/ /\ local_path(download_tasks[i].key) \in DOMAIN files
               /\ files' = RemoveFile(files, local_path(download_tasks[i].key))
               /\ download_tasks' =
                     [Unlinked(download_tasks, local_path(download_tasks[i].key))
                         EXCEPT ![i].pc = "done", ![i].success = FALSE]
            \/ /\ download_tasks' = SetDownload(i, [download_tasks[i] EXCEPT
                                                       !.pc = "done", !.success = FALSE])
               /\ UNCHANGED files
    /\ UNCHANGED <<prog, max_depth, remote, dirs, mainVars, recVars, args_year,
                   args_month, tool_pc, exit_status, xml_files, all_zip_files,
                   filtered_files, failed_files, existing, retries, responses,
                   attempts, fetch_result,
                   extract>>

\* lines 344-367: as_completed yields a finished task, in completion order
DownloadCollect ==
    /\ tool_pc = "download"
    /\ \E i \in 1..Len(download_tasks) :
         /\ download_tasks[i].pc = "done"
         /\ ~download_tasks[i].counted
         /\ download_tasks' = SetDownload(i, [download_tasks[i] EXCEPT !.counted = TRUE])
         /\ IF download_tasks[i].success
            THEN /\ successful_downloads' = successful_downloads + 1
                 /\ UNCHANGED <<failed_downloads, failed_files>>
            ELSE /\ failed_downloads' = failed_downloads + 1
                 /\ failed_files' = Append(failed_files, download_tasks[i].key)
                 /\ UNCHANGED successful_downloads
    /\ UNCHANGED <<shared, pc, level, current_prefixes, total_successful, total_failed,
                   pools, idx, next_level_prefixes, failed_tasks, recVars, args_year,
                   args_month, tool_pc, exit_status, xml_files, all_zip_files,
                   filtered_files, existing, retries, responses, attempts,
                   fetch_result,
                   extract>>

\* lines 369-382: every task was handed over, the summary is printed
DownloadFinish ==
    /\ tool_pc = "download"
    /\ \A i \in 1..Len(download_tasks) : download_tasks[i].counted
    /\ ToolExit("0")
    /\ UNCHANGED <<shared, mainVars, recVars, args_year, args_month, xml_files,
                   all_zip_files, filtered_files, download_tasks, failed_files,
                   existing, retries, responses, attempts, fetch_result,
                   extract>>

DownloadNext ==
    \/ ValidateArgs
    \/ FindXmlFiles
    \/ ParseXmlFile
    \/ FilterFiles
    \/ ConfirmAndSubmit
    \/ DownloadStart
    \/ DownloadGet
    \/ DownloadOpen
    \/ DownloadWrite
    \/ DownloadCleanup
    \/ DownloadCollect
    \/ DownloadFinish

\* neither crawler is running
CrawlerIdle ==
    /\ prog = "none"
    /\ max_depth = 0
    /\ remote = [p \in PrefixUniverse |-> NoDoc]
    /\ pc = "done"
    /\ level = 0
    /\ current_prefixes = <<>>
    /\ total_successful = 0
    /\ total_failed = 0
    /\ pools = <<>>
    /\ idx = 1
    /\ next_level_prefixes = <<>>
    /\ successful_downloads = 0
    /\ failed_downloads = 0
    /\ failed_tasks = <<>>
    /\ stack = <<>>
    /\ visited = {}
    /\ errors_log = <<>>
    /\ escaped = FALSE

\* the data directories a run of download_zip_data.py can find: none, an
\* empty one, or a mirror of one or two listing files
Mirrors ==
    {<< >>}
      \cup {WriteFile(<< >>, first_xml, d) :
              d \in {XmlListing(<<>>, ks) : ks \in KeyListings} \cup {MalformedDoc}}
      \cup {WriteFile(WriteFile(<< >>, first_xml, XmlListing(<<>>, ks)),
                      second_xml, XmlListing(<<>>, <<key_april>>)) :
              ks \in KeyListings}

\* the state in which download_zip_data.py starts: the arguments, the mirror,
\* and possibly an archive left by an earlier run
DownloadInit ==
    /\ CrawlerIdle
    /\ args_year \in YearArgs
    /\ args_month \in MonthArgs
    /\ \E mirror \in Mirrors : \E old \in SUBSET {local_path(key_april)} :
         /\ files = [p \in DOMAIN mirror \cup old |->
                        IF p \in old THEN "old" ELSE mirror[p]]
         /\ dirs \in IF mirror = << >> /\ old = {} THEN {{}, {save_dir}}
                     ELSE IF mirror = << >> THEN {{download_dir}, {save_dir, download_dir}}
                     ELSE IF old = {} THEN {{save_dir}}
                     ELSE {{save_dir, download_dir}}
    /\ tool_pc = "args"
    /\ exit_status = "none"
    /\ xml_files = <<>>
    /\ all_zip_files = <<>>
    /\ filtered_files = <<>>
    /\ download_tasks = <<>>
    /\ failed_files = <<>>
    /\ existing = {}
    /\ retries = 0
    /\ responses = <<>>
    /\ attempts = 0
    /\ fetch_result = "none"
    /\ ExtractIdle

DownloadSpec == DownloadInit /\ [][DownloadNext]_vars

\* ------------------------------------------------------ extract_and_cleanup
\* the variables of download_zip_data.py and of the watched request that
\* extract_and_cleanup.py does not have
downloadVars == <<args_year, args_month, xml_files, all_zip_files, filtered_files,
                  download_tasks, existing, retries, responses, attempts,
                  fetch_result>>

\* the archives --directory can hold: a downloaded one and one whose download
\* was cut short (not a zip file)
ZipContents == {"complete", "partial"}

\* directory.rglob("*.zip")
ZipFilesBelow(dir) ==
    {p \in DOMAIN files : Len(p) > Len(dir) /\ SubSeq(p, 1, Len(dir)) = dir
                          /\ EndsWith(p[Len(p)], zip_suffix)}

\* the member of an archive of this bucket: the same name with ".csv"
Member(path) ==
    [path EXCEPT ![Len(path)] =
        SubSeq(@, 1, Len(@) - Len(zip_suffix)) \o <<".", "c", "s", "v">>]

\* a task submitted with executor.submit(extract_zip_file, task);
\* counted: as_completed handed it to the main thread
ExtractTask(path) ==
    [path |-> path, pc |-> "queued", success |-> FALSE, missing |-> FALSE,
     counted |-> FALSE]

SetExtract(i, t) == [extract EXCEPT !.extract_tasks[i] = t]

Extracting(t) == t.pc \in {"check", "extract"}

\* lines 164-186: the directory must exist; find_all_zip_files; the run ends
\* (sys.exit(0)) when there is no zip file
FindZipFiles ==
    /\ tool_pc = "find_zip"
    /\ IF download_dir \notin dirs
       THEN ToolExit("1") /\ UNCHANGED extract
       ELSE IF ZipFilesBelow(download_dir) = {}
       THEN ToolExit("0") /\ UNCHANGED extract
       ELSE /\ \E found \in Orderings(ZipFilesBelow(download_dir)) :
                 extract' = [extract EXCEPT !.zip_files = found]
            /\ tool_pc' = "confirm_extract"
            /\ UNCHANGED exit_status
    /\ UNCHANGED <<shared, mainVars, recVars, downloadVars, failed_files>>

\* lines 205-231: the answer to input(); anything but "y"/"yes" ends the run
\* (sys.exit(0)); the task list and its submission
ConfirmAndExtract ==
    /\ tool_pc = "confirm_extract"
    /\ \/ /\ ToolExit("0")
          /\ UNCHANGED extract
       \/ /\ extract' = [extract EXCEPT !.extract_tasks =
                            [i \in 1..Len(zip_files) |-> ExtractTask(zip_files[i])]]
          /\ tool_pc' = "extract"
          /\ UNCHANGED exit_status
    /\ UNCHANGED <<shared, mainVars, recVars, downloadVars, failed_files>>

\* a free thread takes the next task
ExtractStart ==
    /\ tool_pc = "extract"
    /\ \E i \in 1..Len(extract_tasks) :
         /\ extract_tasks[i].pc = "queued"
         /\ \A j \in 1..(i - 1) : extract_tasks[j].pc # "queued"
         /\ Cardinality({j \in 1..Len(extract_tasks) :
                            Extracting(extract_tasks[j])}) < Workers
         /\ extract' = SetExtract(i, [extract_tasks[i] EXCEPT !.pc = "check"])
    /\ UNCHANGED <<shared, mainVars, recVars, downloadVars, tool_pc, exit_status,
                   failed_files>>

\* lines 39-44: the file is gone (something else removed it since the scan),
\* or it is not a zip file, or the task goes on
ExtractCheck ==
    /\ tool_pc = "extract"
    /\ \E i \in 1..Len(extract_tasks) :
         LET t == extract_tasks[i] IN
         /\ t.pc = "check"
         /\ \/ /\ t.path \in DOMAIN files
               /\ files' = RemoveFile(files, t.path)
               /\ extract' = SetExtract(i, [t EXCEPT !.pc = "done",
                                                           !.missing = TRUE])
            \/ /\ t.path \in DOMAIN files
               /\ extract' =
                     SetExtract(i, [t EXCEPT !.pc = IF files[t.path] = "complete"
                                                    THEN "extract" ELSE "done"])
               /\ UNCHANGED files
    /\ UNCHANGED <<prog, max_depth, remote, dirs, mainVars, recVars, downloadVars,
                   tool_pc, exit_status, failed_files>>

\* lines 47-63: extract_to_dir.mkdir and extractall, or BadZipFile,
\* PermissionError or another exception, each returned as a failure
ExtractAll ==
    /\ tool_pc = "extract"
    /\ \E i \in 1..Len(extract_tasks) :
         LET t == extract_tasks[i] IN
         /\ t.pc = "extract"
         /\ \/ /\ files' = WriteFile(files, Member(t.path), "member")
               /\ extract' = SetExtract(i, [t EXCEPT !.pc = "done",
                                                           !.success = TRUE])
            \/ /\ extract' = SetExtract(i, [t EXCEPT !.pc = "done"])
               /\ UNCHANGED files
    /\ UNCHANGED <<prog, max_depth, remote, dirs, mainVars, recVars, downloadVars,
                   tool_pc, exit_status, failed_files>>

\* lines 235-258: as_completed yields a finished task, in completion order
ExtractCollect ==
    /\ tool_pc = "extract"
    /\ \E i \in 1..Len(extract_tasks) :
         LET t == extract_tasks[i] IN
         /\ t.pc = "done"
         /\ ~t.counted
         /\ IF t.success
            THEN /\ extract' = [SetExtract(i, [t EXCEPT !.counted = TRUE]) EXCEPT
                                  !.successful_extracts = @ + 1]
                 /\ UNCHANGED failed_files
            ELSE /\ extract' = [SetExtract(i, [t EXCEPT !.counted = TRUE]) EXCEPT
                                  !.failed_extracts = @ + 1]
                 /\ failed_files' = Append(failed_files, t.path)
    /\ UNCHANGED <<shared, mainVars, recVars, downloadVars, tool_pc, exit_status>>

\* any(failed_path == zip_file for failed_path, _ in failed_files) (line 283)
\* variant: no zip file is taken as failed
is_failed_never(failed, zip_file) == FALSE
is_failed(failed, zip_file) == zip_file \in Range(failed)

\* lines 280-285
RECURSIVE NotFailed(_, _)
NotFailed(zips, failed) ==
    IF zips = <<>> THEN <<>>
    ELSE IF is_failed(failed, zips[1]) THEN NotFailed(Tail(zips), failed)
    ELSE <<zips[1]>> \o NotFailed(Tail(zips), failed)

\* lines 260-285: the executor's with-block is left when every task was
\* handed over; the list of files to delete, empty with --no-delete or when
\* nothing was extracted
StartCleanup ==
    /\ tool_pc = "extract"
    /\ \A i \in 1..Len(extract_tasks) : extract_tasks[i].counted
    /\ extract' = [extract EXCEPT !.successful_zip_files =
                        IF ~no_delete /\ successful_extracts > 0
                        THEN NotFailed(zip_files, failed_files)
                        ELSE <<>>]
    /\ tool_pc' = "cleanup"
    /\ UNCHANGED <<shared, mainVars, recVars, downloadVars, exit_status, failed_files>>

\* lines 290-300: zip_file.unlink(), an error of stat or unlink is swallowed
DeleteZipFile ==
    /\ tool_pc = "cleanup"
    /\ successful_zip_files # <<>>
    /\ \/ /\ successful_zip_files[1] \in DOMAIN files
          /\ files' = RemoveFile(files, successful_zip_files[1])
       \/ UNCHANGED files
    /\ extract' = [extract EXCEPT !.successful_zip_files = Tail(@)]
    /\ UNCHANGED <<prog, max_depth, remote, dirs, mainVars, recVars, downloadVars,
                   tool_pc, exit_status, failed_files>>

\* line 310: the end of main
ExtractFinish ==
    /\ tool_pc = "cleanup"
    /\ successful_zip_files = <<>>
    /\ ToolExit("0")
    /\ UNCHANGED <<shared, mainVars, recVars, downloadVars, failed_files, extract>>

ExtractNext ==
    \/ FindZipFiles
    \/ ConfirmAndExtract
    \/ ExtractStart
    \/ ExtractCheck
    \/ ExtractAll
    \/ ExtractCollect
    \/ StartCleanup
    \/ DeleteZipFile
    \/ ExtractFinish

\* the state in which extract_and_cleanup.py starts: --directory downloads,
\* there or not, with none, one or both of two archives below it, with or
\* without --no-delete
ExtractInit ==
    /\ CrawlerIdle
    /\ \E zips \in SUBSET {local_path(key_april), local_path(key_may)} :
         /\ files \in [zips -> ZipContents]
         /\ dirs \in IF zips = {} THEN {{}, {download_dir}}
                     ELSE {{download_dir} \cup {Parent(z) : z \in zips}}
    /\ args_year = <<>>
    /\ args_month = <<>>
    /\ tool_pc = "find_zip"
    /\ exit_status = "none"
    /\ xml_files = <<>>
    /\ all_zip_files = <<>>
    /\ filtered_files = <<>>
    /\ download_tasks = <<>>
    /\ failed_files = <<>>
    /\ existing = {}
    /\ retries = 0
    /\ responses = <<>>
    /\ attempts = 0
    /\ fetch_result = "none"
    /\ \E flag \in BOOLEAN :
         extract = [no_delete |-> flag, zip_files |-> <<>>, extract_tasks |-> <<>>,
                    successful_extracts |-> 0, failed_extracts |-> 0,
                    successful_zip_files |-> <<>>]

ExtractSpec == ExtractInit /\ [][ExtractNext]_vars

\* ------------------------------------------------------ a two-level tree
\* A remote tree with the listings root -> {a/, b/}, a/ -> a/x.zip and
\* b/ -> b/y.zip.CHECKSUM, crawled with --start-prefix "" --max-depth 3.
root_prefix == <<>>
b_prefix == <<"b", "/">>
fixture_zip == <<"a", "/", "x">> \o zip_suffix
fixture_checksum == <<"b", "/", "y">> \o checksum_suffix

FixtureRemote ==
    [p \in {root_prefix, start_prefix, b_prefix} |->
        IF p = root_prefix THEN XmlListing(<<start_prefix, b_prefix>>, <<>>)
        ELSE IF p = start_prefix THEN XmlListing(<<>>, <<fixture_zip>>)
        ELSE XmlListing(<<>>, <<fixture_checksum>>)]

FixtureInit ==
    /\ prog = "multiprocess"
    /\ max_depth \in 0..MaxDepthLimit
    /\ remote = FixtureRemote
    /\ dirs = {save_dir}
    /\ files = << >>
    /\ pc = "loop"
    /\ level = 0
    /\ current_prefixes = <<root_prefix>>
    /\ total_successful = 0
    /\ total_failed = 0
    /\ pools = <<>>
    /\ idx = 1
    /\ next_level_prefixes = <<>>
    /\ successful_downloads = 0
    /\ failed_downloads = 0
    /\ failed_tasks = <<>>
    /\ stack = <<>>
    /\ visited = {}
    /\ errors_log = <<>>
    /\ escaped = FALSE
    /\ ToolIdle

FixtureSpec == FixtureInit /\ [][MainNext]_vars

\* main is a sequential program that keeps running; a pool process may stay
\* blocked in its request for ever
FairFixtureSpec == FixtureSpec /\ WF_vars(MainNext)

\* ------------------------------------------- keys that begin with "/" or ".."
\* A bucket that holds the keys "/x.zip" and "../x.zip": the listing of ""
\* reports the common prefixes "/" and "../", crawled with --start-prefix "".
slash_prefix == <<"/">>
dotdot_prefix == <<".", ".", "/">>
slash_zip == slash_prefix \o <<"x">> \o zip_suffix
dotdot_zip == dotdot_prefix \o <<"x">> \o zip_suffix

OutsideRemote ==
    [p \in {root_prefix, slash_prefix, dotdot_prefix} |->
        IF p = root_prefix THEN XmlListing(<<slash_prefix, dotdot_prefix>>, <<>>)
        ELSE IF p = slash_prefix THEN XmlListing(<<>>, <<slash_zip>>)
        ELSE XmlListing(<<>>, <<dotdot_zip>>)]

OutsideInit ==
    /\ prog = "multiprocess"
    /\ max_depth \in 0..MaxDepthLimit
    /\ remote = OutsideRemote
    /\ dirs = {save_dir}
    /\ files = << >>
    /\ pc = "loop"
    /\ level = 0
    /\ current_prefixes = <<root_prefix>>
    /\ total_successful = 0
    /\ total_failed = 0
    /\ pools = <<>>
    /\ idx = 1
    /\ next_level_prefixes = <<>>
    /\ successful_downloads = 0
    /\ failed_downloads = 0
    /\ failed_tasks = <<>>
    /\ stack = <<>>
    /\ visited = {}
    /\ errors_log = <<>>
    /\ escaped = FALSE
    /\ ToolIdle

OutsideSpec == OutsideInit /\ [][MainNext]_vars

\* ------------------------------------------------ one request of a session
\* largest retries argument tried (every value 0..MaxRetries is tried)
MaxRetries == 3

\* what the server can do at one attempt: the connection or the read fails,
\* a response with a status that is not 2xx (and no Retry-After header)
\* arrives, or a 2xx response arrives
ServerBehaviours == {"error", "status", "ok"}

\* session.get through HTTPAdapter(max_retries=Retry(total=retries,
\* backoff_factor=...)): Retry is given no status_forcelist, so a response is
\* handed back whatever its status and only a failed connection or read is
\* tried again, as long as total is not used up; response.raise_for_status()
\* then raises for a status that is not 2xx
FetchAttempt ==
    /\ tool_pc = "request"
    /\ fetch_result = "none"
    /\ attempts' = attempts + 1
    /\ fetch_result' =
          IF responses[attempts + 1] = "ok" THEN "ok"
          ELSE IF responses[attempts + 1] = "status" THEN "raised"
          ELSE IF attempts < retries THEN "none"
          ELSE "raised"
    /\ UNCHANGED <<shared, mainVars, recVars, args_year, args_month, tool_pc,
                   exit_status, xml_files, all_zip_files, filtered_files,
                   download_tasks, failed_files, existing, retries, responses,
                   extract>>

\* a request is made with some retries argument against a server whose
\* behaviour at each attempt is not known
FetchInit ==
    /\ CrawlerIdle
    /\ dirs = {}
    /\ files = << >>
    /\ args_year = <<>>
    /\ args_month = <<>>
    /\ tool_pc = "request"
    /\ exit_status = "none"
    /\ xml_files = <<>>
    /\ all_zip_files = <<>>
    /\ filtered_files = <<>>
    /\ download_tasks = <<>>
    /\ failed_files = <<>>
    /\ existing = {}
    /\ retries \in 0..MaxRetries
    /\ responses \in [1..(retries + 1) -> ServerBehaviours]
    /\ attempts = 0
    /\ fetch_result = "none"
    /\ ExtractIdle

FetchSpec == FetchInit /\ [][FetchAttempt]_vars

\* ---------------------------------------------------------------- claims
Tasks(l) == {pools[l][i] : i \in 1..Len(pools[l])}
PrefixesOf(l) == {t.prefix : t \in Tasks(l)}
Levels == 1..Len(pools)
\* a level whose collecting loop and pool are finished
Ended(l) == l < Len(pools) \/ pc # "collect"
Children(p) == Range(get_common_prefixes(remote[p]))
Terminated ==
    \/ prog = "multiprocess" /\ pc = "done"
    \/ prog = "recursive" /\ stack = <<>>

\* C1: once the tasks of a later level are submitted, every task of every
\* earlier level has been counted by the collecting loop (as a success, as a
\* failure, or as failed after the timeout) and none of them is queued or
\* running any more.
C1_LevelBarrier ==
    \A l \in Levels : l < Len(pools) =>
        \A t \in Tasks(l) : t.outcome # "none" /\ t.pc \in {"done", "killed"}

\* C1 witness: a worker of level 2 was still at work when its result timed
\* out, was killed with its pool, and level 3 has requested a listing.
C1_Witness ==
    /\ Len(pools) = 3
    /\ \E t \in Tasks(2) : t.pc = "killed" /\ t.fetch = "ok"
    /\ \E t \in Tasks(3) : t.fetch = "ok"

\* C2: a prefix is handed to a worker, or requested or mirrored by the
\* recursive crawler, only at a depth below max_depth (the start prefix is at
\* depth 0); with max_depth = 0 nothing is requested.
C2_DepthBoundary ==
    /\ \A l \in Levels : l - 1 < max_depth
    /\ \A v \in visited : v[2] < max_depth
    /\ max_depth = 0 => remote = [p \in PrefixUniverse |-> NoDoc] /\ files = << >>

\* C2 witness: max_depth = 1, the start prefix was fetched, it reported
\* children, and the run ended without fetching them.
C2_Witness ==
    /\ prog = "multiprocess"
    /\ max_depth = 1
    /\ pc = "done"
    /\ \E t \in Tasks(1) : t.outcome = "success"
    /\ current_prefixes # <<>>
    /\ Len(pools) = 1

\* the frontier that follows level l: the tasks of level l + 1 when they
\* were submitted, otherwise current_prefixes as main left it
FrontierAfter(l) == IF l < Len(pools) THEN PrefixesOf(l + 1) ELSE Range(current_prefixes)

RECURSIVE FailedAmong(_, _)
FailedAmong(tasks, n) ==
    IF n = 0 THEN <<>>
    ELSE IF tasks[n].outcome = "failed" THEN Append(FailedAmong(tasks, n - 1), tasks[n].prefix)
    ELSE FailedAmong(tasks, n - 1)

\* the children served for the tasks 1..n of a level that were counted as
\* successes, in submission order
RECURSIVE ChildrenAmong(_, _)
ChildrenAmong(tasks, n) ==
    IF n = 0 THEN <<>>
    ELSE IF tasks[n].outcome = "success"
         THEN ChildrenAmong(tasks, n - 1) \o get_common_prefixes(remote[tasks[n].prefix])
    ELSE ChildrenAmong(tasks, n - 1)

Collected == IF pc = "collect" THEN idx - 1 ELSE Len(pools[Len(pools)])

C5_DedupAndDrain ==
    /\ \A l \in Levels : \A i, j \in 1..Len(pools[l]) :
          pools[l][i].prefix = pools[l][j].prefix => i = j
    /\ pc = "collect" =>
          current_prefixes = [i \in 1..Len(pools[Len(pools)]) |-> pools[Len(pools)][i].prefix]
    /\ \A l \in Levels : l < Len(pools) => \A t \in Tasks(l) : t.outcome # "none"

\* C5 witness: both parents of level 2 reported the same child and level 3
\* holds one task for it.
C5_Witness ==
    /\ Len(pools) = 3
    /\ Len(pools[2]) = 2
    /\ \A t \in Tasks(2) : t.outcome = "success" /\ empty_name_prefix \in Children(t.prefix)
    /\ Cardinality({i \in 1..Len(pools[3]) : pools[3][i].prefix = empty_name_prefix}) = 1

\* the tasks, by level and position, for which a listing was requested
Requested ==
    UNION {{<<l, i>> : i \in {j \in 1..Len(pools[l]) : pools[l][j].fetch # "none"}} : l \in Levels}

\* the listings served so far describe a tree below the start prefix: no
\* listing reports the start prefix and no prefix is reported by two listings
TreeShaped ==
    /\ \A p \in PrefixUniverse : start_prefix \notin Children(p)
    /\ \A p, q \in PrefixUniverse : p # q => Children(p) \cap Children(q) = {}

\* C6 as stated: no prefix is requested by two tasks of a run.
C6_FetchedAtMostOnce ==
    \A a, b \in Requested : pools[a[1]][a[2]].prefix = pools[b[1]][b[2]].prefix => a = b

\* C6 amended: within one level no prefix is requested twice; over the whole
\* run no prefix is requested twice as long as the listings served describe
\* a tree (the crawler does not check that they do).
C6_FetchedOncePerLevelAndInTrees ==
    /\ \A a, b \in Requested :
          a[1] = b[1] /\ pools[a[1]][a[2]].prefix = pools[b[1]][b[2]].prefix => a = b
    /\ TreeShaped => C6_FetchedAtMostOnce

\* C6 witness: a tree of two prefixes was crawled to its end, each requested.
C6_Witness ==
    /\ prog = "multiprocess"
    /\ pc = "done"
    /\ TreeShaped
    /\ Children(start_prefix) = {empty_name_prefix}
    /\ \E a, b \in Requested : a # b

\* C7: the crawl ends, whatever the listings report and whichever requests
\* fail or never return: at most max_depth levels are submitted, the recursion
\* is never entered at a depth beyond max_depth, and the program reaches its
\* end.
C7_Terminates ==
    /\ [](/\ Len(pools) <= max_depth
          /\ \A k \in 1..Len(stack) : stack[k].current_depth <= max_depth)
    /\ <>Terminated

\* C7 witness: every listing reports the listed prefix itself, and the level
\* crawler stopped at the depth limit with a frontier left.
C7_Witness ==
    /\ prog = "multiprocess"
    /\ pc = "done"
    /\ max_depth = MaxDepthLimit
    /\ Len(pools) = max_depth
    /\ start_prefix \in Children(start_prefix)
    /\ current_prefixes # <<>>

\* the prefixes whose listing the run received and counted as fetched
FetchedOk ==
    {t.prefix : t \in {u \in UNION {Tasks(l) : l \in Levels} : u.outcome = "success"}}
        \cup {v[1] : v \in {w \in visited : remote[w[1]] # NoDoc}}

\* C8 as stated: at the end of a run, the mirror file of every prefix fetched
\* successfully exists and holds the listing received for that prefix.
C8_MirrorHoldsListing ==
    Terminated =>
        \A p \in FetchedOk :
            /\ xml_file_path(p) \in DOMAIN files
            /\ files[xml_file_path(p)] = remote[p]

\* the prefixes for which a worker or a call of the recursive crawler ran
VisitedPrefixes ==
    {t.prefix : t \in {u \in UNION {Tasks(l) : l \in Levels} : u.pc # "queued"}}
        \cup {v[1] : v \in visited}

\* C9 as stated: two different prefixes visited in one run have different
\* mirror file paths.
C9_DistinctMirrorPaths ==
    \A p, q \in VisitedPrefixes : p # q => xml_file_path(p) # xml_file_path(q)

\* C10 as stated: a prefix whose received listing is not well-formed XML is
\* counted as failed and adds no children.
C10_MalformedIsFailure ==
    \A l \in Levels : \A t \in Tasks(l) :
        (t.outcome # "none" /\ t.pc = "done" /\ t.fetch = "ok"
            /\ remote[t.prefix] = MalformedDoc)
        => (t.outcome = "failed" /\ t.child_prefixes = <<>>)

\* the keys of a listing a reader of the specification calls wanted
WantedKeys(keys) ==
    SelectSeq(keys, LAMBDA k : EndsWith(k, zip_suffix) /\ ~EndsWith(k, checksum_suffix))

\* the listing files of the mirror that are parsed already
ParsedXml == XmlFilesBelow(save_dir) \ Range(xml_files)

\* C11: from the Contents of a listing file exactly the keys that end with
\* ".zip" and do not end with ".zip.CHECKSUM" are selected, in the order of
\* the listing: a ".zip" key is selected, the same key with ".CHECKSUM"
\* appended is not, a ".json" key is not; what main collects from the parsed
\* files is made of such keys only and misses none of them.
C11_KeyFilter ==
    /\ \A p \in XmlFilesBelow(save_dir) :
          files[p].kind = "xml" =>
              extract_zip_files_from_xml(files[p]) = WantedKeys(files[p].keys)
    /\ IsZipKey(key_april) /\ ~IsZipKey(key_april_checksum) /\ ~IsZipKey(key_json)
    /\ tool_pc \in {"parse", "confirm", "download"} =>
          Range(all_zip_files) = UNION {Range(WantedKeys(files[p].keys)) : p \in ParsedXml}

\* C11 witness: a listing with an archive, its checksum sidecar was parsed
\* and only the archive was collected.
C11_Witness ==
    /\ tool_pc = "confirm"
    /\ files[first_xml].keys = <<key_april, key_april_checksum>>
    /\ all_zip_files = <<key_april>>

\* the keys of a list that contain year-month, month padded to two digits
RetainedKeys(keys, year_s, month_s) ==
    SelectSeq(keys, LAMBDA k :
        Contains(k, year_s \o <<"-">> \o (IF Len(month_s) = 1 THEN <<"0">> \o month_s
                                          ELSE month_s)))

\* C12: with year and month both given, filter_files_by_date returns the keys
\* that contain "<year>-<month padded to two digits>", in input order (2024
\* and 4 keep the key with 2024-04 and drop the one with 2024-05); with year
\* or month absent it returns its input; main applies it only when both are
\* given.
C12_DateFilter ==
    /\ \A y \in YearArgs : \A m \in MonthArgs :
          filter_files_by_date(all_zip_files, y, m) =
              IF y # <<>> /\ m # <<>> THEN RetainedKeys(all_zip_files, y, m)
              ELSE all_zip_files
    /\ filter_files_by_date(<<key_may, key_april>>, <<"2", "0", "2", "4">>, <<"4">>)
          = <<key_april>>
    /\ tool_pc \in {"confirm", "download"} =>
          filtered_files = IF args_year # <<>> /\ args_month # <<>>
                           THEN RetainedKeys(all_zip_files, args_year, args_month)
                           ELSE all_zip_files

\* C12 witness: --year 2024 --month 4, the mirror lists the archives of
\* April and May, and only April is kept.
C12_Witness ==
    /\ tool_pc = "confirm"
    /\ args_year = <<"2", "0", "2", "4">> /\ args_month = <<"4">>
    /\ all_zip_files = <<key_may, key_april>>
    /\ filtered_files = <<key_april>>

\* the arguments the specification calls a usage error
BadDateArgs ==
    \/ (args_year = <<>>) # (args_month = <<>>)
    \/ /\ args_year # <<>> /\ args_month # <<>>
       /\ \/ ~IsInt(args_year)
          \/ ~IsInt(args_month)
          \/ IntOf(args_month) \notin 1..12

\* C13: with only one of --year and --month, a month outside 1..12 or a value
\* that is no number, the run ends with exit status 1 and before that reads
\* no listing file, creates no directory or file and submits no download.
C13_UsageErrorFirst ==
    /\ [](BadDateArgs =>
            /\ tool_pc \in {"args", "exit"}
            /\ tool_pc = "exit" => exit_status = "1"
            /\ xml_files = <<>> /\ all_zip_files = <<>> /\ download_tasks = <<>>)
    /\ [][BadDateArgs => dirs' = dirs /\ files' = files]_vars

\* C13 witness: --year 2024 alone, with a mirror to read: the run has ended
\* with status 1.
C13_Witness ==
    /\ args_year = <<"2", "0", "2", "4">> /\ args_month = <<>>
    /\ first_xml \in DOMAIN files
    /\ tool_pc = "exit" /\ exit_status = "1"

\* C14: an archive that exists when the batch starts is skipped by every task
\* for its key: no request is sent, the file is still there unchanged, the
\* task ends as a success and its key is not among the failed ones; a task
\* that found its file in place sent no request and ended as a success.
C14_ExistingSkipped ==
    /\ \A i \in 1..Len(download_tasks) :
          local_path(download_tasks[i].key) \in existing =>
              /\ ~download_tasks[i].requested
              /\ download_tasks[i].pc \in {"queued", "done"}
              /\ download_tasks[i].pc = "done" =>
                    download_tasks[i].skipped /\ download_tasks[i].success
              /\ local_path(download_tasks[i].key) \in DOMAIN files
              /\ files[local_path(download_tasks[i].key)] = "old"
              /\ \A j \in 1..Len(failed_files) : failed_files[j] # download_tasks[i].key
    /\ \A i \in 1..Len(download_tasks) :
          download_tasks[i].skipped =>
              ~download_tasks[i].requested /\ download_tasks[i].success

\* C14 witness: the batch has ended, the archive of April was there and was
\* skipped and counted, the archive of May was requested.
C14_Witness ==
    /\ tool_pc = "exit"
    /\ \E i, j \in 1..Len(download_tasks) :
         /\ download_tasks[i].key = key_april
         /\ local_path(key_april) \in existing
         /\ download_tasks[i].skipped /\ download_tasks[i].counted
         /\ download_tasks[j].key = key_may /\ download_tasks[j].requested
    /\ successful_downloads >= 1

\* C15 as stated: when the batch has ended, every task was counted, and for
\* each failed download no file is at the key's local path and the key is in
\* failed_files exactly once.
C15_FailureLeavesNoFile ==
    (tool_pc = "exit" /\ download_tasks # <<>>) =>
        /\ successful_downloads + failed_downloads = Len(download_tasks)
        /\ \A i \in 1..Len(download_tasks) :
              ~download_tasks[i].success =>
                  /\ local_path(download_tasks[i].key) \notin DOMAIN files
                  /\ Cardinality({j \in 1..Len(failed_files) :
                                     failed_files[j] = download_tasks[i].key}) = 1

\* the wanted keys the archive downloader extracts from the mirror
WantedFromMirror ==
    UNION {Range(extract_zip_files_from_xml(files[p])) : p \in XmlFilesBelow(save_dir)}

\* C16: the crawl of the two-level tree with max_depth = 3, when it ends
\* without a failure, has written the mirror files of root, a/ and b/ and no
\* other file, has run two levels and ended on the empty frontier, and the
\* wanted keys extracted from the mirror are exactly a/x.zip.
C16_FixtureCrawl ==
    (max_depth = 3 /\ pc = "done" /\ total_failed = 0) =>
        /\ DOMAIN files = {xml_file_path(root_prefix), xml_file_path(start_prefix),
                           xml_file_path(b_prefix)}
        /\ \A p \in DOMAIN remote : files[xml_file_path(p)] = remote[p]
        /\ Len(pools) = 2
        /\ PrefixesOf(2) = {start_prefix, b_prefix}
        /\ current_prefixes = <<>>
        /\ WantedFromMirror = {fixture_zip}

\* C16 witness: the crawl of the two-level tree has ended with three
\* successes and no failure.
C16_Witness ==
    /\ remote = FixtureRemote
    /\ max_depth = 3
    /\ pc = "done"
    /\ total_failed = 0
    /\ total_successful = 3

\* the prefixes reached from the start prefix through exactly n listings, as
\* far as the listings were served
RECURSIVE ReachedAt(_)
ReachedAt(n) ==
    IF n = 0 THEN {start_prefix}
    ELSE UNION {Children(p) : p \in ReachedAt(n - 1)}

ReachableBelow(n) == UNION {ReachedAt(l) : l \in 0..(n - 1)}

\* the prefixes a listing was requested for
FetchedPrefixes ==
    {pools[a[1]][a[2]].prefix : a \in Requested} \cup {v[1] : v \in visited}

\* no request failed, no directory could not be made, and the level crawler
\* counted no worker as failed for a result that came too late
NoFetchFailure ==
    /\ errors_log = <<>> /\ ~escaped
    /\ \A l \in Levels : \A t \in Tasks(l) :
          /\ t.fetch # "failed"
          /\ ~(t.pc = "done" /\ t.fetch = "none")
          /\ t.pc # "killed"
          /\ t.outcome = "failed" => ~t.success

\* what the recursive crawler does: when no request and no mkdir fails, it
\* requests every prefix reachable in fewer than max_depth listings
RecursiveFetchesReachable ==
    (prog = "recursive" /\ Terminated /\ NoFetchFailure) =>
        FetchedPrefixes = ReachableBelow(max_depth)

\* C17 as stated: for the same start prefix, max_depth, listings and fetch
\* outcomes the level crawler requests the prefixes the recursive crawler
\* requests, that is, when no request fails, every prefix reachable from the
\* start prefix in fewer than max_depth listings.
C17_SameFetchedSet ==
    (Terminated /\ NoFetchFailure) => FetchedPrefixes = ReachableBelow(max_depth)

\* C18 as stated: when the call for a child prefix ends, by a return or by a
\* failure, only that call ends: its caller is still in its loop over the
\* children, a line added to errors.log names the child that failed, and no
\* exception has left process_s3_directory_recursive.
C18_ChildFailureIsolated ==
    [][(prog = "recursive" /\ Len(stack) >= 2 /\ Len(stack') < Len(stack)) =>
          /\ stack' = Pop(1)
          /\ errors_log' # errors_log => errors_log' = Append(errors_log, Top.prefix)
          /\ ~escaped']_vars

\* C19 as stated: a request is tried again after a failed connection and
\* after a response that is not 2xx, at most retries + 1 times in all, so a
\* request that ended as a failure has used all its retries + 1 attempts.
C19_RetriesUntilExhausted ==
    /\ attempts <= retries + 1
    /\ fetch_result = "raised" => attempts = retries + 1

\* every worker of level l returned its result and the collecting loop
\* counted it as returned (no result came after the timeout)
AllReturned(l) ==
    \A t \in Tasks(l) : t.pc = "done" /\ (t.outcome = "success") = t.success

MainStopped ==
    /\ prog = "multiprocess"
    /\ \/ pc = "loop" /\ level >= max_depth /\ current_prefixes # <<>>
       \/ pc = "done"

\* process_s3_directory_recursive was entered at the depth limit
RecStopped ==
    /\ prog = "recursive"
    /\ stack # <<>>
    /\ Top.pc = "enter"
    /\ Top.current_depth >= max_depth

\* C21: when the depth limit stops the crawl with prefixes left, the stop
\* and everything after it leave the remaining prefixes alone: no request is
\* made, no directory or mirror file is created, no task is submitted, and
\* the totals, the failed tasks and errors.log stay as they are.
C21_DepthStopTouchesNothing ==
    [][/\ MainStopped =>
            UNCHANGED <<remote, dirs, files, pools, current_prefixes,
                        total_successful, total_failed, successful_downloads,
                        failed_downloads, failed_tasks>>
       /\ RecStopped =>
            UNCHANGED <<remote, dirs, files, visited, errors_log, escaped>>]_vars

\* C21 witness: one level ran, its listing reported a child, and the loop
\* ended at the depth limit with that child in the frontier and no failure.
C21_Witness ==
    /\ prog = "multiprocess"
    /\ pc = "done"
    /\ max_depth = 1
    /\ level = max_depth
    /\ current_prefixes = <<empty_name_prefix>>
    /\ total_successful = 1
    /\ total_failed = 0
    /\ failed_tasks = <<>>
    /\ Len(pools) = 1
    /\ empty_name_prefix \notin PrefixesOf(1)

\* ------------------------------------------------------------------ C22
\* a call of process_s3_directory_recursive that got past the depth test is
\* left by an exception: its frame goes without having reached its loop
CallFails ==
    /\ prog = "recursive"
    /\ stack # <<>>
    /\ Top.pc = "enter"
    /\ Top.current_depth < max_depth
    /\ Len(stack') < Len(stack)

\* C22: errors.log only grows, by one line at a time and at its end, and
\* every call that fails adds exactly one line to it.
C22_LedgerOneLinePerFailure ==
    [][/\ \/ errors_log' = errors_log
          \/ /\ Len(errors_log') = Len(errors_log) + 1
             /\ SubSeq(errors_log', 1, Len(errors_log)) = errors_log
       /\ CallFails => Len(errors_log') = Len(errors_log) + 1]_vars

\* ------------------------------------------------------------------ C23
\* the tasks of the level crawler, as <<level, position>>
TaskIds == UNION {{<<l, i>> : i \in 1..Len(pools[l])} : l \in 1..Len(pools)}

\* C23 as stated: a step that creates a directory or writes a file belongs
\* to a worker whose request has succeeded (level crawler), or is not the
\* step of a call that fails (recursive crawler).
C23_DiskOnlyAfterFetch ==
    [][/\ prog = "multiprocess" /\ (dirs' # dirs \/ files' # files) =>
            \E id \in TaskIds :
                /\ pools[id[1]][id[2]].fetch = "ok"
                /\ pools'[id[1]][id[2]] # pools[id[1]][id[2]]
       /\ prog = "recursive" /\ (dirs' # dirs \/ files' # files) =>
            errors_log' = errors_log]_vars

\* C23, amended: the mirror file of a prefix is written only by a worker
\* whose request succeeded, with the document it received; a worker whose
\* request failed has returned failure; the local directory is created
\* before the request is made, so it exists whether the request succeeds or
\* fails.
C23_MirrorOnlyAfterFetch ==
    /\ [](prog = "multiprocess" =>
            \A id \in TaskIds :
                LET t == pools[id[1]][id[2]] IN
                /\ t.fetch = "failed" => t.pc = "done" /\ ~t.success
                /\ t.pc = "write" => t.fetch = "ok"
                /\ t.fetch # "none" \/ t.pc \in {"fetch", "write"} =>
                       local_dir(t.prefix) \in dirs)
    /\ [][/\ prog = "multiprocess" /\ files' # files =>
               \E id \in TaskIds :
                   LET t == pools[id[1]][id[2]] IN
                   /\ t.pc = "write"
                   /\ t.fetch = "ok"
                   /\ remote[t.prefix] \in Docs
                   /\ files' = WriteFile(files, xml_file_path(t.prefix), remote[t.prefix])
          /\ prog = "recursive" /\ files' # files =>
               /\ errors_log' = errors_log
               /\ remote'[Top.prefix] \in Docs
               /\ files' = WriteFile(files, xml_file_path(Top.prefix), remote'[Top.prefix])
               /\ local_dir(Top.prefix) \in dirs']_vars

\* C23 witness: the request for the start prefix failed; its directory is
\* there and no mirror file was written.
C23_Witness ==
    /\ prog = "multiprocess"
    /\ Len(pools) = 1
    /\ pools[1][1].prefix = start_prefix
    /\ pools[1][1].fetch = "failed"
    /\ pools[1][1].outcome = "failed"
    /\ local_dir(start_prefix) \in dirs
    /\ files = << >>

\* ------------------------------------------------------------------ C25
\* the number of tasks submitted in the levels 1..n
RECURSIVE DispatchedUpTo(_)
DispatchedUpTo(n) == IF n = 0 THEN 0 ELSE DispatchedUpTo(n - 1) + Len(pools[n])

\* the tasks of level l that the collecting loop counted as o
CountedIn(l, o) ==
    Cardinality({i \in 1..Len(pools[l]) : pools[l][i].outcome = o})

\* the tasks of the levels 1..n that the collecting loop counted as o
RECURSIVE CountedUpTo(_, _)
CountedUpTo(n, o) == IF n = 0 THEN 0 ELSE CountedUpTo(n - 1, o) + CountedIn(n, o)

\* C25: while a level is collected its two counters are the numbers of its
\* tasks counted as success and as failure, and when its last result is
\* in they add up to the number of tasks submitted in the level; between
\* levels and at the end the two totals are those numbers over all levels
\* and add up to the number of tasks submitted in the run.
C25_Accounting ==
    prog = "multiprocess" =>
        /\ pc = "collect" =>
              /\ successful_downloads = CountedIn(level + 1, "success")
              /\ failed_downloads = CountedIn(level + 1, "failed")
              /\ successful_downloads + failed_downloads = idx - 1
              /\ idx > Len(pools[level + 1]) =>
                     successful_downloads + failed_downloads = Len(pools[level + 1])
        /\ pc \in {"loop", "done"} =>
              /\ total_successful = CountedUpTo(Len(pools), "success")
              /\ total_failed = CountedUpTo(Len(pools), "failed")
              /\ total_successful + total_failed = DispatchedUpTo(Len(pools))

\* C25 witness: the run ended after two levels with successes and a failure
\* in its totals.
C25_Witness ==
    /\ prog = "multiprocess"
    /\ pc = "done"
    /\ Len(pools) >= 2
    /\ total_successful >= 2
    /\ total_failed >= 1
    /\ total_successful + total_failed = DispatchedUpTo(Len(pools))

\* ------------------------------------------------------------------ C26
\* C26, for the first level (no mirror file exists before it, and its only
\* task is the start prefix): once the level has ended, the mirror file of
\* the start prefix exists if and only if the prefix was counted as a
\* success.
C26_MirrorIffSuccess ==
    prog = "multiprocess" /\ Len(pools) = 1 /\ pc \in {"loop", "done"} =>
        (xml_file_path(pools[1][1].prefix) \in DOMAIN files
            <=> pools[1][1].outcome = "success")

\* ------------------------------------------------------------------ C27
\* C27: when the download batch has ended, every key a task returned
\* success for has a file at download_dir / key.
C27_SuccessfulKeyHasFile ==
    tool_pc = "exit" /\ exit_status = "0" =>
        \A i \in 1..Len(download_tasks) :
            download_tasks[i].success =>
                local_path(download_tasks[i].key) \in DOMAIN files

\* ------------------------------------------------------------------ C28
\* the level crawler is collecting the results of a level
Collecting == prog = "multiprocess" /\ pc = "collect"

\* the level is left: main is back at its loop test or at its end
LevelLeft == prog = "multiprocess" /\ pc \in {"loop", "done"}

\* C28: every level that is being collected is eventually left, whether or
\* not its workers return; and once a level is left, each of its workers
\* that had not returned was counted as failed and was killed with the pool.
C28_LevelCompletes ==
    /\ Collecting ~> LevelLeft
    /\ [](prog = "multiprocess" /\ pc \in {"loop", "done"} =>
            \A id \in TaskIds :
                LET t == pools[id[1]][id[2]] IN
                /\ t.outcome \in {"success", "failed"}
                /\ t.pc \in {"done", "killed"}
                /\ t.pc = "killed" => t.outcome = "failed")

\* C28 witness: the only worker of the first level never got to its request;
\* the level was left with the prefix counted as failed and the run ended.
C28_Witness ==
    /\ prog = "multiprocess"
    /\ pc = "done"
    /\ Len(pools) = 1
    /\ pools[1][1].pc = "killed"
    /\ pools[1][1].fetch = "none"
    /\ pools[1][1].outcome = "failed"
    /\ failed_tasks = <<root_prefix>>
    /\ total_failed = 1

\* ------------------------------------------------------------------ C30
\* C30: on every listing file of the mirror, well-formed or not,
\* utils.get_zip_files_from_xml returns the keys extract_zip_files_from_xml
\* returns, in the same order; a ".zip.CHECKSUM" key does not pass the
\* ".zip" test alone; and what main collected from a mirror of one listing
\* file is what utils.get_zip_files_from_xml gives for that file.
C30_ExtractorsAgree ==
    /\ \A p \in XmlFilesBelow(save_dir) :
          get_zip_files_from_xml(files[p]) = extract_zip_files_from_xml(files[p])
    /\ HasZipSuffix(key_april) /\ ~HasZipSuffix(key_april_checksum)
    /\ tool_pc = "confirm" /\ XmlFilesBelow(save_dir) = {first_xml} =>
          all_zip_files = get_zip_files_from_xml(files[first_xml])

\* C30 witness: a listing with an archive and its checksum sidecar was
\* parsed; both extractors give the archive alone.
C30_Witness ==
    /\ tool_pc = "confirm"
    /\ XmlFilesBelow(save_dir) = {first_xml}
    /\ key_april_checksum \in Range(files[first_xml].keys)
    /\ get_zip_files_from_xml(files[first_xml]) = <<key_april>>
    /\ all_zip_files = <<key_april>>

\* ------------------------------------------------------------------ C29
\* the path is base itself or below it: it begins with the components of
\* base and none of the components after them is ".."
Inside(base, path) ==
    /\ Len(path) >= Len(base)
    /\ SubSeq(path, 1, Len(base)) = base
    /\ \A k \in (Len(base) + 1)..Len(path) : path[k] # <<".", ".">>

\* C29: every directory the crawler has created and every mirror file it has
\* written lies inside save_dir, and the local path of every key the
\* mirrored listings hold lies inside download_dir.
C29_PathsStayInside ==
    /\ \A d \in dirs : Inside(save_dir, d)
    /\ \A f \in DOMAIN files : Inside(save_dir, f)
    /\ \A f \in DOMAIN files :
          \A k \in Range(extract_zip_files_from_xml(files[f])) :
              Inside(download_dir, local_path(k))

\* ------------------------------------------------------------------ C24
\* C24: a zip file the batch found is gone from its place (other than by
\* something else removing it before its task looked for it) only when
\* every extraction task of the batch was finished and handed over, its own
\* extraction succeeded and left its member, and --no-delete was not given.
C24_DeleteOnlyExtracted ==
    \A i \in 1..Len(extract_tasks) :
        LET t == extract_tasks[i] IN
        t.path \notin DOMAIN files /\ ~t.missing =>
            /\ tool_pc \in {"cleanup", "exit"}
            /\ \A j \in 1..Len(extract_tasks) :
                  extract_tasks[j].pc = "done" /\ extract_tasks[j].counted
            /\ t.success
            /\ t.path \notin Range(failed_files)
            /\ Member(t.path) \in DOMAIN files
            /\ ~no_delete

\* C24 witness: of two archives one was extracted and deleted, the other one
\* was not a zip file and is still there.
C24_Witness ==
    /\ tool_pc = "exit"
    /\ ~no_delete
    /\ Len(extract_tasks) = 2
    /\ local_path(key_april) \notin DOMAIN files
    /\ Member(local_path(key_april)) \in DOMAIN files
    /\ local_path(key_may) \in DOMAIN files
    /\ failed_files = <<local_path(key_may)>>

====
